---------------------------- MODULE Spec2Model ----------------------------
(***************************************************************************)
(* Factur-X invoice assembly (bba-git/test-factur-x-replit).               *)
(*                                                                         *)
(* The parts of the repository are modelled by specifications over the     *)
(* same variables:                                                         *)
(*   Spec          the XML encoders (XMLService and the generate_facturx_  *)
(*                 xml functions) applied to an invoice, its items and     *)
(*                 optional keys varying;                                  *)
(*   SpecHeader    the same encoders, the header keys, the amounts, the    *)
(*                 parties and the item keys of the invoice varying;       *)
(*   SpecAttach    the embed_xml_in_pdf / add_facturx_compliance variants  *)
(*                 editing a PDF container's catalog;                      *)
(*   SpecPipeline  the pipelines (create_facturx_invoice, main) running    *)
(*                 convert, generate, embed and validate against the file  *)
(*                 system;                                                 *)
(*   SpecService   calls of FacturXService and PDFAService side by side    *)
(*                 on one output directory;                                *)
(*   SpecSteps     one run of an embed variant, statement by statement;    *)
(*   SpecRegistry  concurrent calls of try_call / cursor_log_action on the *)
(*                 shared registry file.                                   *)
(*                                                                         *)
(* Amounts: a quantity is counted in halves and a unit price in quarters   *)
(* of the currency unit, so a product quantity * unit_price is an exact    *)
(* number of eighths (binary floating point represents these exactly, and  *)
(* the code's float arithmetic on them is exact).  A value formatted with  *)
(* ":.2f" is a number of cents (the minor unit).                           *)
(***************************************************************************)
EXTENDS Integers, Sequences, FiniteSets, TLC

VARIABLES
    invoice,    \* the invoice data handed to an encoder
    doc,        \* the document the encoder built (NoDoc before)
    pdf,        \* the container (catalog, objects) an embed variant edits
    last,       \* what the last attach did: variant, inputs, outcome, state before
    pipe,       \* a pipeline run: variant, position, file system, event log
    files,      \* the files the services and the action log share: path -> content
    procs       \* the calls in progress: each one's arguments, position, locals

vars == <<invoice, doc, pdf, last, pipe, files, procs>>

(***************************************************************************)
(* Bounds of the model.                                                    *)
(***************************************************************************)
MaxItems == 2

\* No file, no call: the value of files and procs where no service runs.
NoFiles == <<>>

NoProcs == <<>>

(***************************************************************************)
(*                         PART 1: THE ENCODERS                            *)
(***************************************************************************)

\* Element names, direct children of rsm:SupplyChainTradeTransaction.
LineItemTag == "IncludedSupplyChainTradeLineItem"
AgreementTag == "ApplicableHeaderTradeAgreement"
DeliveryTag == "ApplicableHeaderTradeDelivery"
SettlementTag == "ApplicableHeaderTradeSettlement"

\* Input domains: quantity in halves, unit price in quarters, rate in percent.
Quantities == {1, 2}
UnitPrices == {1, 2}
VatRates == {10, 20}

Item == [quantity : Quantities, unit_price : UnitPrices, vat_rate : VatRates]

ItemSeqs == UNION {[1..n -> Item] : n \in 0..MaxItems}

\* The optional keys of the invoice dictionary the encoders test with "in".
OptFields ==
    {"creditor_reference", "payment_reference", "tax_currency", "payee",
     "billing_period", "allowances", "due_date", "referenced_documents",
     "accounting_account", "notes", "purchase_order_ref", "payment_terms"}

\* The sets of optional keys an input carries: none, each alone, all.
OptSets == {{}} \cup {{f} : f \in OptFields} \cup {OptFields}

\* The invoices of the encoder specification: items and optional keys vary,
\* the seller and buyer sections are there and empty, no other key is given.
Invoices ==
    [items : ItemSeqs, opts : OptSets, seller : {<<>>}, buyer : {<<>>}]

\* etree.SubElement(parent, tag): the new element becomes the last child.
SubElement(children, tag) == Append(children, tag)

RECURSIVE SubElements(_, _, _)
\* n successive SubElement(parent, tag) calls (a loop over n items).
SubElements(children, tag, n) ==
    IF n = 0 THEN children
    ELSE SubElements(SubElement(children, tag), tag, n - 1)

\* item quantity * unit_price, in eighths of the currency unit.
NetAmount(item) == item.quantity * item.unit_price

\* f"{x:.2f}" of x = e8 / 8: the number of cents, the tie (an odd number of
\* half cents) rounded to the even cent as Python rounds an exact binary value.
Fmt2(e8) ==
    LET halfCents == 25 * e8
        down == halfCents \div 2
    IN  IF halfCents % 2 = 0 THEN down
        ELSE IF down % 2 = 0 THEN down ELSE down + 1

\* d.get(key, default): a dictionary is a function on the keys it has.
Get(d, key, default) == IF key \in DOMAIN d THEN d[key] ELSE default

\* {}: the dictionary without keys.
EmptyDict == <<>>

\* The dates an input carries, and the date datetime.now() gives.
IssueDates == {"2024-01-15"}
Today == {"20250101", "20250102"}

\* date_str.replace('-', ''); format_date of src/generate_facturx_xml.py gives
\* the same string for a YYYY-MM-DD date and for the empty string.
FormatDate(date_str) ==
    CASE date_str = "2024-01-15" -> "20240115"
      [] date_str = "" -> ""
      [] OTHER -> date_str

\* Half-cent values n.5 (n cents and a half) whose nearest double lies above
\* them, so that ":.2f" gives n + 1; the others give n (12.5 and 37.5 are
\* exact in binary and go to the even cent).  Amounts below 40 cents.
TiesAbove == {2, 22, 27, 32, 37}

\* f"{(base_amount * rate / 100):.2f}", base_amount = base8 / 8 and rate a
\* whole percentage: the number of cents.  base_amount * rate / 100 is
\* base8 * rate eighths of a cent.
FmtTax(base8, rate) ==
    LET c8 == base8 * rate
        down == c8 \div 8
    IN  IF c8 % 8 < 4 THEN down
        ELSE IF c8 % 8 > 4 THEN down + 1
        ELSE IF down \in TiesAbove THEN down + 1 ELSE down

\* A party element's children, in document order: element name and text.
Child(tag, text) == [tag |-> tag, text |-> text]

\* The text of GuidelineSpecifiedDocumentContextParameter/ID each generator
\* writes, kept as the sequence of its pieces between colons (the validator
\* tests it by prefix, case-sensitively).
\* src/src/facturxapp/services/xml_service.py, _add_header, line 96
XMLService_guideline == <<"urn", "factur-x", "pdfa", "EN16931", "2017", "compliant">>

\* src/generate_facturx_xml.py, line 46
Standalone_guideline == <<"urn", "cen.eu", "en16931", "2017">>

\* src/facturx_process.py, line 90:
\* urn:factur-x.eu:1p0:{invoice.get('profile', 'EN16931')}
Process_guideline(inv) == <<"urn", "factur-x.eu", "1p0", Get(inv, "profile", "EN16931")>>

\* src/server/invoice/facturx_process.py, line 225
Invoice_guideline == <<"EN16931">>

\* src/server/utils/pdf/facturx_process.py, line 77
Utils_guideline == <<"urn", "factur-x", "pdfa", "EN16931", "2017", "compliant">>

NoDoc ==
    [encoder |-> "none", result |-> "none", guideline |-> <<>>, transaction |-> <<>>,
     settlement |-> <<>>, lines |-> <<>>, taxes |-> <<>>,
     header |-> EmptyDict, summation |-> EmptyDict,
     seller |-> <<>>, buyer |-> <<>>]

-----------------------------------------------------------------------------
(* XMLService (src/src/facturxapp/services/xml_service.py)                 *)

\* _add_line_items: one element per item, LineID from enumerate(items, 1), the
\* rate written is the literal 20, the total is str(quantity * unit_price).
XMLService_lines(items) ==
    [i \in 1..Len(items) |->
        [LineID |-> i,
         Name |-> Get(items[i], "description", ""),
         ChargeAmount |-> items[i].unit_price,
         BilledQuantity |-> items[i].quantity,
         RateApplicablePercent |-> 20,
         LineTotalEighths |-> NetAmount(items[i])]]

XMLService_add_line_items(trade, items) ==
    SubElements(trade, LineItemTag, Len(items))

XMLService_add_invoice_details(trade) == SubElement(trade, AgreementTag)

XMLService_add_header_delivery(trade) == SubElement(trade, DeliveryTag)

\* _add_totals appends one ApplicableHeaderTradeSettlement to the transaction;
\* every optional key adds a child of that element, never of the transaction.
XMLService_add_totals(trade) == SubElement(trade, SettlementTag)

XMLService_totals_children(opts) ==
    LET opt(key, tag) == IF key \in opts THEN <<tag>> ELSE <<>>
    IN  opt("creditor_reference", "CreditorReferenceID")
        \o opt("payment_reference", "PaymentReference")
        \o opt("tax_currency", "TaxCurrencyCode")
        \o <<"InvoiceCurrencyCode">>
        \o opt("payee", "PayeeTradeParty")
        \o <<"SpecifiedTradeSettlementPaymentMeans", "ApplicableTradeTax">>
        \o opt("billing_period", "BillingSpecifiedPeriod")
        \o opt("allowances", "SpecifiedTradeAllowanceCharge")
        \o opt("due_date", "SpecifiedTradePaymentTerms")
        \o <<"SpecifiedTradeSettlementHeaderMonetarySummation">>
        \o opt("referenced_documents", "InvoiceReferencedDocument")
        \o opt("accounting_account", "ReceivableSpecifiedTradeAccountingAccount")

\* The mutated order: the header sections first, the line items last.
XMLService_transaction_headers_first(items) ==
    XMLService_add_line_items(
        XMLService_add_totals(
            XMLService_add_header_delivery(
                XMLService_add_invoice_details(<<>>))), items)

\* generate_facturx_xml, lines 56-71: the calls on the transaction, in order.
XMLService_transaction(items) ==
    XMLService_add_totals(
        XMLService_add_header_delivery(
            XMLService_add_invoice_details(
                XMLService_add_line_items(<<>>, items))))

\* _add_header, lines 101-113, and _add_totals, line 238: the invoice number
\* defaults to '', the date to today's, the currency to 'EUR'.
XMLService_add_header(inv, today) ==
    [ID |-> Get(inv, "invoice_number", ""),
     IssueDateTime |-> FormatDate(Get(inv, "issue_date", today)),
     InvoiceCurrencyCode |-> Get(inv, "currency", "EUR")]

\* _add_invoice_details, lines 125-142: Name, and SpecifiedTaxRegistration
\* when the party dictionary has the key vat_number.
XMLService_party(party) ==
    <<Child("Name", Get(party, "name", ""))>>
    \o (IF "vat_number" \in DOMAIN party
        THEN <<Child("SpecifiedTaxRegistration", party.vat_number)>>
        ELSE <<>>)

\* _add_totals, lines 290-292: the summation holds GrandTotalAmount only,
\* str(total_amount) unformatted (here in eighths).
XMLService_summation(inv) == [GrandTotalEighths |-> Get(inv, "total", 0)]

XMLService_generate_facturx_xml(inv, today) ==
    [encoder |-> "XMLService",
     result |-> "ok",
     guideline |-> XMLService_guideline,
     transaction |-> XMLService_transaction(inv.items),
     settlement |-> XMLService_totals_children(inv.opts),
     lines |-> XMLService_lines(inv.items),
     taxes |-> <<[rate |-> 20]>>,
     header |-> XMLService_add_header(inv, today),
     summation |-> XMLService_summation(inv),
     seller |-> XMLService_party(Get(inv, "seller", EmptyDict)),
     buyer |-> XMLService_party(Get(inv, "buyer", EmptyDict))]

-----------------------------------------------------------------------------
(* generate_facturx_xml (src/generate_facturx_xml.py)                      *)

RECURSIVE Standalone_tax_rates(_, _)
\* Lines 152-158: the dict tax_rates, as the sequence of its (rate, base)
\* entries in insertion order; base accumulates quantity * unit_price unrounded.
Standalone_tax_rates(items, groups) ==
    IF items = <<>> THEN groups
    ELSE LET item == Head(items)
             rate == item.vat_rate
             known == \E g \in 1..Len(groups) : groups[g].rate = rate
             entered == IF known THEN groups
                        ELSE Append(groups, [rate |-> rate, base |-> 0])
             added == [g \in 1..Len(entered) |->
                          IF entered[g].rate = rate
                          THEN [entered[g] EXCEPT !.base = @ + NetAmount(item)]
                          ELSE entered[g]]
         IN  Standalone_tax_rates(Tail(items), added)

\* Lines 161-177: one ApplicableTradeTax per dict entry, BasisAmount formatted
\* from the accumulated base.
Standalone_taxes(items) ==
    LET groups == Standalone_tax_rates(items, <<>>)
    IN  [g \in 1..Len(groups) |->
            [rate |-> groups[g].rate,
             CalculatedAmount |-> FmtTax(groups[g].base, groups[g].rate),
             BasisAmount |-> Fmt2(groups[g].base)]]

\* Lines 199-240: LineID from enumerate(items, 1), the item's own rate, the
\* line total formatted from quantity * unit_price.
Standalone_lines(items) ==
    [i \in 1..Len(items) |->
        [LineID |-> i,
         Name |-> Get(items[i], "description", ""),
         ChargeAmount |-> Fmt2(2 * items[i].unit_price),
         BilledQuantity |-> items[i].quantity,
         RateApplicablePercent |-> items[i].vat_rate,
         LineTotalAmount |-> Fmt2(NetAmount(items[i]))]]

\* Lines 67-240: the SubElement calls on the transaction, in source order:
\* agreement (70), delivery (123), settlement (131), then the item loop (199).
Standalone_transaction(items) ==
    SubElements(
        SubElement(SubElement(SubElement(<<>>, AgreementTag), DeliveryTag),
                   SettlementTag),
        LineItemTag, Len(items))

\* Lines 131-180: the children of the settlement element, one
\* ApplicableTradeTax per tax group.
Standalone_settlement_children(items) ==
    SubElement(
        SubElements(
            <<"PaymentReference", "InvoiceCurrencyCode",
              "SpecifiedTradePaymentTerms">>,
            "ApplicableTradeTax", Len(Standalone_tax_rates(items, <<>>))),
        "SpecifiedTradeSettlementHeaderMonetarySummation")

\* Lines 49-59 and 136-137: the invoice number and the date default to '',
\* the currency to 'EUR'.
Standalone_header(inv) ==
    [ID |-> Get(inv, "invoice_number", ""),
     IssueDateTime |-> FormatDate(Get(inv, "issue_date", "")),
     InvoiceCurrencyCode |-> Get(inv, "currency", "EUR")]

\* Lines 73-114: Name, the address with CountryID (text '' when the key is
\* missing), and SpecifiedTaxRegistration when the party has vat_number.
Standalone_party(party) ==
    <<Child("Name", Get(party, "name", "")),
      Child("CountryID", Get(party, "country", ""))>>
    \o (IF "vat_number" \in DOMAIN party
        THEN <<Child("SpecifiedTaxRegistration", Get(party, "vat_number", ""))>>
        ELSE <<>>)

\* Lines 180-196: the header amounts are the input's subtotal, vat_total and
\* total, each 0 when missing, formatted to cents.
Standalone_summation(inv) ==
    [LineTotalAmount |-> Fmt2(Get(inv, "subtotal", 0)),
     TaxBasisTotalAmount |-> Fmt2(Get(inv, "subtotal", 0)),
     TaxTotalAmount |-> Fmt2(Get(inv, "vat_total", 0)),
     GrandTotalAmount |-> Fmt2(Get(inv, "total", 0)),
     DuePayableAmount |-> Fmt2(Get(inv, "total", 0))]

Standalone_generate_facturx_xml(inv) ==
    [encoder |-> "generate_facturx_xml",
     result |-> "ok",
     guideline |-> Standalone_guideline,
     transaction |-> Standalone_transaction(inv.items),
     settlement |-> Standalone_settlement_children(inv.items),
     lines |-> Standalone_lines(inv.items),
     taxes |-> Standalone_taxes(inv.items),
     header |-> Standalone_header(inv),
     summation |-> Standalone_summation(inv),
     seller |-> Standalone_party(Get(inv, "seller", EmptyDict)),
     buyer |-> Standalone_party(Get(inv, "buyer", EmptyDict))]

-----------------------------------------------------------------------------
(* generate_facturx_xml (src/facturx_process.py): a string template        *)

\* Lines 100-206: the template writes agreement, delivery and settlement, and
\* appends one line-item block per item after the settlement is closed.
Process_transaction(items) ==
    SubElements(<<AgreementTag, DeliveryTag, SettlementTag>>,
                LineItemTag, Len(items))

Process_lines(items) ==
    [i \in 1..Len(items) |->
        [LineID |-> i,
         Name |-> Get(items[i], "description", ""),
         ChargeAmount |-> Fmt2(2 * items[i].unit_price),
         BilledQuantity |-> items[i].quantity,
         RateApplicablePercent |-> items[i].vat_rate,
         LineTotalAmount |-> Fmt2(NetAmount(items[i]))]]

\* Lines 90-98 and 135: number and date default to '', currency to 'EUR'.
Process_header(inv) ==
    [ID |-> Get(inv, "invoice_number", ""),
     IssueDateTime |-> FormatDate(Get(inv, "issue_date", "")),
     InvoiceCurrencyCode |-> Get(inv, "currency", "EUR")]

\* Lines 102-125: the template always writes CountryID and
\* SpecifiedTaxRegistration, with '' for a key the party does not have
\* (the identifier is read from the party's tax identifier key).
Process_party(party) ==
    <<Child("Name", Get(party, "name", "")),
      Child("CountryID", Get(party, "country", "")),
      Child("SpecifiedTaxRegistration", Get(party, "vat_number", ""))>>

\* Lines 144-151 and 162-169: the amounts of the input's totals, 0 when missing.
Process_summation(inv) ==
    [LineTotalAmount |-> Fmt2(Get(inv, "subtotal", 0)),
     TaxBasisTotalAmount |-> Fmt2(Get(inv, "subtotal", 0)),
     TaxTotalAmount |-> Fmt2(Get(inv, "vat_total", 0)),
     GrandTotalAmount |-> Fmt2(Get(inv, "total", 0)),
     DuePayableAmount |-> Fmt2(Get(inv, "total", 0))]

\* Lines 70-74 and 215-217: seller = data['seller'] and buyer = data['buyer']
\* raise KeyError on a missing section; the function then returns False and
\* writes no file.
Process_generate_facturx_xml(inv) ==
    IF ~ {"seller", "buyer"} \subseteq DOMAIN inv
    THEN [NoDoc EXCEPT !.encoder = "facturx_process", !.result = "error"]
    ELSE
    [encoder |-> "facturx_process",
     result |-> "ok",
     guideline |-> Process_guideline(inv),
     transaction |-> Process_transaction(inv.items),
     settlement |-> <<"InvoiceCurrencyCode", "SpecifiedTradeSettlementPaymentMeans",
                      "ApplicableTradeTax", "SpecifiedTradePaymentTerms",
                      "SpecifiedTradeSettlementHeaderMonetarySummation">>,
     lines |-> Process_lines(inv.items),
     taxes |-> <<[rate |-> 20,
                  CalculatedAmount |-> Fmt2(Get(inv, "vat_total", 0)),
                  BasisAmount |-> Fmt2(Get(inv, "subtotal", 0))]>>,
     header |-> Process_header(inv),
     summation |-> Process_summation(inv),
     seller |-> Process_party(inv.seller),
     buyer |-> Process_party(inv.buyer)]

-----------------------------------------------------------------------------
(* generate_facturx_xml (src/server/invoice/facturx_process.py)            *)

\* Lines 238-264: one element per item in input order; LineID is the item's
\* own line_id ('' when it has none), the total the item's own line_total
\* (0 when it has none), every number written with str().
Invoice_lines(items) ==
    [i \in 1..Len(items) |->
        [LineID |-> Get(items[i], "line_id", ""),
         Name |-> Get(items[i], "description", ""),
         ChargeAmount |-> items[i].unit_price,
         BilledQuantity |-> items[i].quantity,
         RateApplicablePercent |-> items[i].vat_rate,
         LineTotalEighths |-> Get(items[i], "line_total", 0)]]

\* Lines 235-293: the item loop, then agreement, delivery, settlement.
Invoice_transaction(items) ==
    SubElement(SubElement(SubElement(
        SubElements(<<>>, LineItemTag, Len(items)),
        AgreementTag), DeliveryTag), SettlementTag)

\* Lines 229-232 and 294: number and date default to '', the currency is the
\* literal 'EUR'.
Invoice_header(inv) ==
    [ID |-> Get(inv, "invoice_number", ""),
     IssueDateTime |-> FormatDate(Get(inv, "issue_date", "")),
     InvoiceCurrencyCode |-> "EUR"]

\* Lines 270-285: Name and an address whose CountryID is the literal 'FR'.
Invoice_party(party) ==
    <<Child("Name", Get(party, "name", "")), Child("CountryID", "FR")>>

Invoice_generate_facturx_xml(inv) ==
    [encoder |-> "server_invoice",
     result |-> "ok",
     guideline |-> Invoice_guideline,
     transaction |-> Invoice_transaction(inv.items),
     settlement |-> <<"InvoiceCurrencyCode", "ApplicableTradeTax",
                      "SpecifiedTradeSettlementHeaderMonetarySummation">>,
     lines |-> Invoice_lines(inv.items),
     taxes |-> <<[rate |-> Get(inv, "vat_rate", 0)]>>,
     header |-> Invoice_header(inv),
     summation |-> [LineTotalEighths |-> Get(inv, "subtotal", 0),
                    GrandTotalEighths |-> Get(inv, "total", 0)],
     seller |-> Invoice_party(Get(inv, "seller", EmptyDict)),
     buyer |-> Invoice_party(Get(inv, "buyer", EmptyDict))]

(***************************************************************************)
(*                  PART 2: EDITING THE PDF CONTAINER                      *)
(*                                                                         *)
(* A container is its catalog (pdf.Root) and its indirect objects:         *)
(*   keys      the catalog keys present among /AF, /Names, /Metadata;      *)
(*             "Names" stands for the chain /Names /EmbeddedFiles /Names,  *)
(*             which every variant creates level by level when missing;    *)
(*   AF        the /AF array: object numbers;                              *)
(*   names     the /Names /EmbeddedFiles /Names array, its alternating     *)
(*             key, value entries taken in pairs [key, ref];               *)
(*   metadata  the XMP packet of /Metadata, as a function of its keys      *)
(*             ("" where the key is not set);                              *)
(*   objs      the indirect objects, objs[n] the object numbered n.        *)
(***************************************************************************)

CanonicalName == "factur-x.xml"

XmlContents == {"xmlA", "xmlB"}

\* The conformance profiles of Factur-X the repository names.
Profiles == {"MINIMUM", "BASIC_WL", "EN16931"}

\* The profile argument of the variants that take one: any string, a profile
\* or not (sys.argv[4] and the function parameter are not checked).
ProfileArgs == {"EN16931", "BASIC_WL", "EXTENDED"}

\* datetime.datetime.now() as generateXMPMetadata reads it.
ClockValues == {"t1", "t2"}

MetaKeys ==
    {"pdfaid:part", "pdfaid:conformance", "fx:conformance", "fx:documentfilename",
     "fx:documenttype", "fx:version", "dc:title", "dc:description",
     "xmp:CreatorTool", "pdf:Producer", "pdf:Keywords", "pdf:ModDate",
     "zf:DocumentType", "zf:DocumentFileName", "zf:Version",
     "zf:ConformanceLevel", "fx:ConformanceLevel", "fx:DocumentType",
     "fx:DocumentFileName", "fx:Version", "fx:DocumentHash"}

\* A packet from the entries given, every other key unset.
Packet(entries) ==
    [k \in MetaKeys |-> IF k \in DOMAIN entries THEN entries[k] ELSE ""]

NoPacket == [k \in MetaKeys |-> ""]

\* hashlib.md5(xml_content).hexdigest()
Md5(xml) == IF xml = "xmlA" THEN "md5-of-xmlA" ELSE "md5-of-xmlB"

\* An object that is no file specification (the ModDate dictionary).
PlainObject(type) ==
    [Type |-> type, F |-> "", AFRelationship |-> "", Desc |-> "", EF |-> ""]

\* A file specification dictionary (or, in add_facturx, a stream carrying the
\* same keys); EF is the content of the embedded stream it points to.
Filespec(f, rel, desc, xml) ==
    [Type |-> "Filespec", F |-> f, AFRelationship |-> rel, Desc |-> desc,
     EF |-> xml]

\* pdf.make_indirect(obj), pdf.make_stream(..), pikepdf.Stream(pdf, ..): the
\* object is added to the file under a new object number, Len(objs) + 1.
make_indirect(p, obj) == [p EXCEPT !.objs = Append(@, obj)]

NewestObject(p) == Len(p.objs)

\* if Name.AF not in pdf.Root: pdf.Root[Name.AF] = Array()
EnsureAF(p) ==
    IF "AF" \in p.keys THEN p
    ELSE [p EXCEPT !.keys = @ \cup {"AF"}, !.AF = <<>>]

\* The three "if ... not in ...: ... = Dictionary()/Array()" of the name tree.
EnsureNames(p) ==
    IF "Names" \in p.keys THEN p
    ELSE [p EXCEPT !.keys = @ \cup {"Names"}, !.names = <<>>]

\* The mutated append: the new reference is put first.
AppendAF_first(p, ref) == [p EXCEPT !.AF = <<ref>> \o @]

\* pdf.Root[Name.AF].append(ref)
AppendAF(p, ref) == [p EXCEPT !.AF = Append(@, ref)]

\* names.append(key); names.append(ref)
AppendNames(p, key, ref) ==
    [p EXCEPT !.names = Append(@, [key |-> key, ref |-> ref])]

\* with pdf.open_metadata() as meta: meta[k] = v ...: the packet of the
\* container is edited, the keys assigned are set, the others kept.
open_metadata(p, entries) ==
    [p EXCEPT !.keys = @ \cup {"Metadata"},
              !.metadata = [k \in MetaKeys |->
                  IF k \in DOMAIN entries THEN entries[k] ELSE @[k]]]

\* pdf.Root.Metadata = stream: the packet is replaced.
SetMetadata(p, entries) ==
    [p EXCEPT !.keys = @ \cup {"Metadata"}, !.metadata = Packet(entries)]

\* if '/Metadata' not in pdf.Root: pdf.Root.Metadata = xmp
SetMetadataIfAbsent(p, entries) ==
    IF "Metadata" \in p.keys THEN p ELSE SetMetadata(p, entries)

-----------------------------------------------------------------------------
(* The metadata each variant writes.                                       *)

\* src/facturx_process.py, lines 282-295
Root_meta(profile) ==
    ("fx:conformance" :> profile) @@ ("fx:documentfilename" :> CanonicalName)
    @@ ("fx:documenttype" :> "INVOICE") @@ ("fx:version" :> "1.0.0")
    @@ ("pdfaid:part" :> "3") @@ ("pdfaid:conformance" :> "B")
    @@ ("dc:title" :> "Factur-X Invoice")
    @@ ("dc:description" :> "Invoice with embedded Factur-X XML")

\* src/embed_xml.py, lines 72-87, and src/embed_xml_updated.py, lines 81-96;
\* the description interpolates the profile.
EmbedXml_meta(profile) ==
    ("pdfaid:part" :> "3") @@ ("pdfaid:conformance" :> "B")
    @@ ("fx:conformance" :> profile) @@ ("fx:documentfilename" :> CanonicalName)
    @@ ("fx:documenttype" :> "INVOICE") @@ ("fx:version" :> "1.0.0")
    @@ ("dc:title" :> "Factur-X Invoice") @@ ("dc:description" :> profile)
    @@ ("xmp:CreatorTool" :> "Python PikePDF Factur-X Generator")
    @@ ("pdf:Producer" :> "Python PikePDF")

\* src/scripts/add_facturx.py, lines 49-64, and
\* src/server/utils/pdf/facturx_process.py, lines 200-215: a fixed packet.
Zf_meta ==
    ("pdfaid:part" :> "3") @@ ("pdfaid:conformance" :> "B")
    @@ ("zf:DocumentType" :> "INVOICE") @@ ("zf:DocumentFileName" :> CanonicalName)
    @@ ("zf:Version" :> "2p0") @@ ("zf:ConformanceLevel" :> "EN16931")

\* src/server/invoice/facturx_process.py, generateXMPMetadata, lines 310-342
generateXMPMetadata(xml_content, invoice_number, now) ==
    ("pdfaid:part" :> "3") @@ ("pdfaid:conformance" :> "B")
    @@ ("pdf:Producer" :> "Factur-X Generator")
    @@ ("pdf:Keywords" :> invoice_number) @@ ("pdf:ModDate" :> now)
    @@ ("fx:ConformanceLevel" :> "EN16931") @@ ("fx:DocumentType" :> "INVOICE")
    @@ ("fx:DocumentFileName" :> CanonicalName) @@ ("fx:Version" :> "1.0.7")
    @@ ("fx:DocumentHash" :> Md5(xml_content))

-----------------------------------------------------------------------------
(* The embed variants: the container each saves, given the one it opened.  *)

\* src/facturx_process.py, embed_xml_in_pdf, lines 233-298
Root_embed_xml_in_pdf(p, xml, profile) ==
    LET filespec == Filespec(CanonicalName, "Data", "Factur-X Invoice Data", xml)
        p1 == make_indirect(EnsureAF(p), filespec)
        p2 == AppendAF(p1, NewestObject(p1))
        p3 == make_indirect(EnsureNames(p2), filespec)
        p4 == AppendNames(p3, CanonicalName, NewestObject(p3))
    IN  open_metadata(p4, Root_meta(profile))

\* src/embed_xml.py, embed_xml_in_pdf, lines 30-90: the names are PDF Name
\* objects (/factur-x.xml), the ModDate dictionary is made indirect while the
\* filespec is built, and only the name tree is filled.
EmbedXml_embed_xml_in_pdf(p, xml, profile) ==
    LET p1 == make_indirect(p, PlainObject("ModDate"))
        filespec == Filespec("/factur-x.xml", "Data", "Factur-X Invoice XML", xml)
        p2 == make_indirect(EnsureNames(p1), filespec)
        p3 == AppendNames(p2, "/factur-x.xml", NewestObject(p2))
    IN  open_metadata(p3, EmbedXml_meta(profile))

\* src/embed_xml_updated.py, embed_xml_in_pdf, lines 30-99
Updated_embed_xml_in_pdf(p, xml, profile) ==
    LET p1 == make_indirect(p, PlainObject("ModDate"))
        filespec == Filespec(CanonicalName, "Data", "Factur-X Invoice XML", xml)
        p2 == make_indirect(EnsureNames(p1), filespec)
        p3 == AppendNames(p2, CanonicalName, NewestObject(p2))
        p4 == make_indirect(EnsureAF(p3), filespec)
        p5 == AppendAF(p4, NewestObject(p4))
    IN  open_metadata(p5, EmbedXml_meta(profile))

\* src/scripts/add_facturx.py, add_facturx_compliance, lines 26-70: the stream
\* af carries the Filespec keys and goes into /AF only.
add_facturx_compliance(p, xml) ==
    LET p1 == make_indirect(p, Filespec(CanonicalName, "Data", "", xml))
        p2 == AppendAF(EnsureAF(p1), NewestObject(p1))
    IN  SetMetadataIfAbsent(p2, Zf_meta)

\* src/server/invoice/facturx_process.py, embed_xml_in_pdf, lines 77-181 (a
\* one-page document: the output intent, the RGB profile and the page's gray
\* profile are made indirect before the filespec).
Invoice_embed_xml_in_pdf(p, xml, invoice_number, now) ==
    LET p0 == make_indirect(
                  make_indirect(
                      make_indirect(p, PlainObject("OutputIntent")),
                      PlainObject("ICCBased")),
                  PlainObject("ICCBased"))
        filespec == Filespec(CanonicalName, "Alternative", "Factur-X Invoice", xml)
        p1 == make_indirect(EnsureAF(p0), filespec)
        p2 == AppendAF(p1, NewestObject(p1))
        p3 == make_indirect(EnsureNames(p2), filespec)
        p4 == AppendNames(p3, CanonicalName, NewestObject(p3))
    IN  SetMetadata(p4, generateXMPMetadata(xml, invoice_number, now))

\* src/server/utils/pdf/facturx_process.py, embed_xml_in_pdf, lines 155-221
Utils_embed_xml_in_pdf(p, xml) ==
    LET filespec == Filespec(CanonicalName, "Data", "Factur-X Invoice Data", xml)
        p1 == make_indirect(EnsureAF(p), filespec)
        p2 == AppendAF(p1, NewestObject(p1))
        p3 == make_indirect(EnsureNames(p2), filespec)
        p4 == AppendNames(p3, CanonicalName, NewestObject(p3))
    IN  SetMetadataIfAbsent(p4, Zf_meta)

-----------------------------------------------------------------------------
(* Attaching to a container, run after run: the container a run saved is   *)
(* the one the next run opens.                                             *)

MaxAttach == 2

\* An attachment that is not the invoice XML, already in the input container.
OtherFilespec == Filespec("other.xml", "Source", "", "other")

\* /Metadata as the converter leaves it: the PDF/A identification only.
ConverterPacket ==
    Packet(("pdfaid:part" :> "3") @@ ("pdfaid:conformance" :> "B"))

EmptyContainer ==
    [keys |-> {}, AF |-> <<>>, names |-> <<>>, metadata |-> NoPacket,
     objs |-> <<>>]

\* The containers a first run may open: no attachment, or the unrelated one
\* registered in /AF, in the name tree, or in both; with or without /Metadata.
InputContainers ==
    LET withOther == make_indirect(EmptyContainer, OtherFilespec)
        inAF == AppendAF(EnsureAF(withOther), 1)
        attached ==
            {EmptyContainer, inAF,
             AppendNames(EnsureNames(withOther), "other.xml", 1),
             AppendNames(EnsureNames(inAF), "other.xml", 1)}
    IN  attached \cup
        {[c EXCEPT !.keys = @ \cup {"Metadata"}, !.metadata = ConverterPacket] :
            c \in attached}

NoCall == [variant |-> "none", xml |-> "", profile |-> "", now |-> "", ok |-> FALSE]

\* One run of an embed variant on the container: saved is what the variant
\* writes when no step raises; when one does (open, read, save), nothing is
\* written.  last records the calls made and the container the run opened.
Attach(variant, xml, profile, now, ok, saved) ==
    /\ Len(last.log) < MaxAttach
    /\ pdf' = IF ok THEN saved ELSE pdf
    /\ last' = [log |-> Append(last.log,
                    IF ok THEN [variant |-> variant, xml |-> xml,
                                profile |-> profile, now |-> now, ok |-> TRUE]
                    ELSE [NoCall EXCEPT !.variant = variant]),
                before |-> pdf]
    /\ UNCHANGED <<invoice, doc, pipe, files, procs>>

AttachInit ==
    /\ pdf \in InputContainers
    /\ last = [log |-> <<>>, before |-> pdf]
    /\ invoice = [items |-> <<>>, opts |-> {}]
    /\ doc = NoDoc
    /\ files = NoFiles
    /\ procs = NoProcs
    /\ pipe = [variant |-> "none"]

EmbedRoot ==
    \E xml \in XmlContents, profile \in ProfileArgs, ok \in BOOLEAN :
        Attach("facturx_process", xml, profile, "", ok,
               Root_embed_xml_in_pdf(pdf, xml, profile))

EmbedXml ==
    \E xml \in XmlContents, profile \in ProfileArgs, ok \in BOOLEAN :
        Attach("embed_xml", xml, profile, "", ok,
               EmbedXml_embed_xml_in_pdf(pdf, xml, profile))

EmbedUpdated ==
    \E xml \in XmlContents, profile \in ProfileArgs, ok \in BOOLEAN :
        Attach("embed_xml_updated", xml, profile, "", ok,
               Updated_embed_xml_in_pdf(pdf, xml, profile))

EmbedAddFacturx ==
    \E xml \in XmlContents, ok \in BOOLEAN :
        Attach("add_facturx", xml, "", "", ok, add_facturx_compliance(pdf, xml))

EmbedInvoice ==
    \E xml \in XmlContents, now \in ClockValues, ok \in BOOLEAN :
        Attach("server_invoice", xml, "", now, ok,
               Invoice_embed_xml_in_pdf(pdf, xml, "INV-1", now))

EmbedUtils ==
    \E xml \in XmlContents, ok \in BOOLEAN :
        Attach("server_utils", xml, "", "", ok, Utils_embed_xml_in_pdf(pdf, xml))

AttachNext ==
    \/ EmbedRoot
    \/ EmbedXml
    \/ EmbedUpdated
    \/ EmbedAddFacturx
    \/ EmbedInvoice
    \/ EmbedUtils

SpecAttach == AttachInit /\ [][AttachNext]_vars

-----------------------------------------------------------------------------
(* The pipelines: one run of create_facturx_invoice (src/facturx_process.py *)
(* and src/create_facturx_invoice.py) or of main (the two server modules). *)
(* pipe holds                                                              *)
(*   variant, profile, validate, xml   the run's arguments and its XML,       *)
(*   pc            the stage to run next, or "done" / "failed",            *)
(*   events        the stages run so far, in order,                        *)
(*   converted     "pending", "ok" or "failed",                            *)
(*   validation    "none", or what the validation step reported,           *)
(*   temp          the PDF/A file in the temporary directory,              *)
(*   target, targetBefore   the file at the output path, now and at start, *)
(*   result        "running", "True" or "False" (exit status 0 or 1).      *)
(* pdf is the container at the path the run works on.                      *)

TempVariants == {"facturx_process", "create_facturx_invoice"}

InPlaceVariants == {"server_invoice", "server_utils"}

\* The converter's output: no attachment, /Metadata with the PDF/A identification.
ConvertedContainer ==
    [EmptyContainer EXCEPT !.keys = {"Metadata"}, !.metadata = ConverterPacket]

\* server/utils main generates the XML before converting; the others convert first.
FirstStage(variant) == IF variant = "server_utils" THEN "generate" ELSE "convert"

\* The mutated step: a failed conversion is not looked at.
AfterConvert_unchecked(variant, ok) ==
    IF variant \in InPlaceVariants THEN "embed" ELSE "generate"

\* "if not convert_to_pdfa3b(..): return False" / sys.exit(1), else the next step.
AfterConvert(variant, ok) ==
    IF ~ok THEN "failed"
    ELSE IF variant \in InPlaceVariants THEN "embed" ELSE "generate"

AfterGenerate(variant, ok) ==
    IF ~ok THEN "failed"
    ELSE IF variant = "server_utils" THEN "convert" ELSE "embed"

\* server/invoice main ends after the embed step; create_facturx_invoice.py
\* validates only when asked to.
AfterEmbed(variant, validate, ok) ==
    IF ~ok THEN "failed"
    ELSE IF variant = "server_invoice" THEN "done"
    ELSE IF variant = "create_facturx_invoice" /\ ~validate THEN "done"
    ELSE "validate"

\* src/create_facturx_invoice.py prints the validation result and returns True;
\* the others fail on an invalid file.
AfterValidate(variant, valid) ==
    IF variant = "create_facturx_invoice" \/ valid THEN "done" ELSE "failed"

\* The end of a run: the result is returned and, in the variants that have
\* one, the finally clause removes the temporary directory.
Settle(p) ==
    IF p.pc \notin {"done", "failed"} THEN p
    ELSE [p EXCEPT !.result = IF p.pc = "done" THEN "True" ELSE "False",
                   !.temp = IF p.variant \in TempVariants THEN "removed" ELSE @]

\* What the variant's embed step saves, given the container it opened.
PipelineEmbed(p, c, now) ==
    CASE p.variant = "facturx_process" -> Root_embed_xml_in_pdf(c, p.xml, p.profile)
      [] p.variant = "create_facturx_invoice" ->
            EmbedXml_embed_xml_in_pdf(c, p.xml, p.profile)
      [] p.variant = "server_invoice" -> Invoice_embed_xml_in_pdf(c, p.xml, "INV-1", now)
      [] p.variant = "server_utils" -> Utils_embed_xml_in_pdf(c, p.xml)

PipelineInit ==
    /\ \E variant \in TempVariants \cup InPlaceVariants,
          profile \in ProfileArgs, validate \in BOOLEAN, xml \in XmlContents,
          before \in {"absent", "old"} :
          pipe = [variant |-> variant,
                  profile |-> IF variant \in TempVariants THEN profile ELSE "",
                  validate |-> IF variant = "create_facturx_invoice"
                               THEN validate ELSE TRUE,
                  xml |-> xml,
                  pc |-> FirstStage(variant),
                  events |-> <<>>,
                  converted |-> "pending",
                  validation |-> "none",
                  temp |-> IF variant \in TempVariants THEN "empty" ELSE "none",
                  target |-> before,
                  targetBefore |-> before,
                  result |-> "running"]
    /\ pdf = EmptyContainer
    /\ last = [log |-> <<>>, before |-> EmptyContainer]
    /\ invoice = [items |-> <<>>, opts |-> {}]
    /\ doc = NoDoc
    /\ files = NoFiles
    /\ procs = NoProcs

\* convert_to_pdfa3b(input_pdf, pdfa_pdf) in the temporary directory, or
\* convert_to_pdfa3(b)(input_pdf, output_pdf) straight to the output path.
\* src/pdf_converter.py (used by create_facturx_invoice.py) runs Ghostscript
\* a second time, through subprocess, when the first attempt raises.
Convert ==
    /\ pipe.pc = "convert"
    /\ \E outcome \in {"ok", "ok on retry", "fail"} :
        LET retried == pipe.variant = "create_facturx_invoice" /\ outcome # "ok"
            ok == outcome # "fail"
        IN  /\ outcome = "ok on retry" => pipe.variant = "create_facturx_invoice"
            /\ pipe' = Settle(
                 [pipe EXCEPT
                    !.events = @ \o (IF retried THEN <<"convert", "convert">>
                                     ELSE <<"convert">>),
                    !.converted = IF ok THEN "ok" ELSE "failed",
                    !.temp = IF ok /\ pipe.variant \in TempVariants
                             THEN "converted" ELSE @,
                    !.target = IF ok /\ pipe.variant \in InPlaceVariants
                               THEN "converted" ELSE @,
                    !.pc = AfterConvert(pipe.variant, ok)])
            /\ pdf' = IF ok THEN ConvertedContainer ELSE pdf
    /\ UNCHANGED <<invoice, doc, last, files, procs>>

\* generate_facturx_xml: the XML file is written to the temporary directory
\* (server/utils: returned as a string), or the step fails.
Generate ==
    /\ pipe.pc = "generate"
    /\ \E ok \in BOOLEAN :
        pipe' = Settle([pipe EXCEPT !.events = Append(@, "generate"),
                                    !.pc = AfterGenerate(pipe.variant, ok)])
    /\ UNCHANGED <<invoice, doc, pdf, last, files, procs>>

\* embed_xml_in_pdf: the converted file is opened, edited and saved to the
\* output path.  "fail": a step before the save raises, nothing is written.
\* "unvalidated" (server/invoice only): the file is saved and the DefaultGray
\* check after the save returns False.
Embed ==
    /\ pipe.pc = "embed"
    /\ \E outcome \in {"ok", "fail", "unvalidated"}, now \in ClockValues :
        /\ outcome = "unvalidated" => pipe.variant = "server_invoice"
        /\ pipe.variant # "server_invoice" => now = "t1"
        /\ pipe' = Settle(
             [pipe EXCEPT
                !.events = Append(@, "embed"),
                !.target = IF outcome = "fail" THEN @ ELSE "embedded",
                !.pc = AfterEmbed(pipe.variant, pipe.validate, outcome = "ok")])
        /\ pdf' = IF outcome = "fail" THEN pdf ELSE PipelineEmbed(pipe, pdf, now)
    /\ UNCHANGED <<invoice, doc, last, files, procs>>

\* validate_facturx_pdf(output_pdf): the file is reported valid or invalid,
\* or the step raises, which every variant ends on as a failure (the except
\* clause of create_facturx_invoice, the uncaught exception of main).
Validate ==
    /\ pipe.pc = "validate"
    /\ \E outcome \in {"valid", "invalid", "raised"} :
        pipe' = Settle([pipe EXCEPT
                    !.events = Append(@, "validate"),
                    !.validation = outcome,
                    !.pc = IF outcome = "raised" THEN "failed"
                           ELSE AfterValidate(pipe.variant, outcome = "valid")])
    /\ UNCHANGED <<invoice, doc, pdf, last, files, procs>>

PipelineNext == Convert \/ Generate \/ Embed \/ Validate

SpecPipeline == PipelineInit /\ [][PipelineNext]_vars

-----------------------------------------------------------------------------
(* The encoders applied to an invoice.                                     *)

\* Values of the variables of the other parts while the encoders run.
IdlePdf == [state |-> "unused"]
IdleLast == [variant |-> "none"]
IdlePipe == [variant |-> "none"]

Init ==
    /\ invoice \in Invoices
    /\ doc = NoDoc
    /\ files = NoFiles
    /\ procs = NoProcs
    /\ pdf = IdlePdf
    /\ last = IdleLast
    /\ pipe = IdlePipe

EncodeXMLService ==
    /\ \E today \in Today : doc' = XMLService_generate_facturx_xml(invoice, today)
    /\ UNCHANGED <<invoice, pdf, last, pipe, files, procs>>

EncodeStandalone ==
    /\ doc' = Standalone_generate_facturx_xml(invoice)
    /\ UNCHANGED <<invoice, pdf, last, pipe, files, procs>>

EncodeProcess ==
    /\ doc' = Process_generate_facturx_xml(invoice)
    /\ UNCHANGED <<invoice, pdf, last, pipe, files, procs>>

EncodeInvoice ==
    /\ doc' = Invoice_generate_facturx_xml(invoice)
    /\ UNCHANGED <<invoice, pdf, last, pipe, files, procs>>

Next == EncodeXMLService \/ EncodeStandalone \/ EncodeProcess \/ EncodeInvoice

Spec == Init /\ [][Next]_vars

-----------------------------------------------------------------------------
(* The encoders applied to invoices whose header keys, amounts, parties    *)
(* and item keys vary.  The keys carry the names src/generate_facturx_xml  *)
(* reads; the other encoders read the same data under their own names      *)
(* (invoice_date, total_amount; number, date, netAmount, vatAmount,        *)
(* grandTotal, taxID; net_amount, seller_name).                            *)

\* S, and every dictionary of S with the key added, for each value.
WithKey(S, key, values) == S \cup {d @@ (key :> v) : d \in S, v \in values}

\* Amounts of the input, in eighths: 100.00, 20.00, 120.00.
Hundred == 800
Twenty == 160
HundredTwenty == 960

\* Party dictionaries: with or without vat_number (possibly empty) and country.
Parties ==
    WithKey(WithKey({[name |-> "ACME"]}, "vat_number", {"", "FR123"}),
            "country", {"FR"})

\* Item lists of the header specification: none; one; two of different
\* rates, the higher rate first, with descriptions and line_id given in
\* another order than the list's.
HeaderItemSeqs ==
    {<<>>,
     <<[quantity |-> 2, unit_price |-> 2, vat_rate |-> 10]>>,
     <<[quantity |-> 2, unit_price |-> 2, vat_rate |-> 20,
        description |-> "widget", line_id |-> "2", line_total |-> 4],
       [quantity |-> 1, unit_price |-> 1, vat_rate |-> 10,
        description |-> "gadget", line_id |-> "1", line_total |-> 1]>>}

HeaderInvoices ==
    LET base == [items : HeaderItemSeqs, opts : {{}}]
        k1 == WithKey(base, "invoice_number", {"INV-1"})
        k2 == WithKey(k1, "issue_date", IssueDates)
        k3 == WithKey(k2, "currency", {"USD"})
        k4 == WithKey(k3, "subtotal", {Hundred})
        k5 == WithKey(k4, "vat_total", {Twenty})
        k6 == WithKey(k5, "total", {Hundred, HundredTwenty})
        k7 == WithKey(k6, "seller", Parties)
    IN  WithKey(k7, "buyer", {[name |-> "Buyer"], [name |-> "Buyer", country |-> "DE"]})

HeaderInit ==
    /\ invoice \in HeaderInvoices
    /\ doc = NoDoc
    /\ files = NoFiles
    /\ procs = NoProcs
    /\ pdf = IdlePdf
    /\ last = IdleLast
    /\ pipe = IdlePipe

SpecHeader == HeaderInit /\ [][Next]_vars

-----------------------------------------------------------------------------
(* Properties of the encoded document.                                     *)

\* The fixed section order: k >= 0 line items, then exactly one agreement, one
\* delivery and one settlement, the settlement last.
FixedSectionOrder(children) ==
    \E k \in 0..Len(children) :
        /\ Len(children) = k + 3
        /\ \A i \in 1..k : children[i] = LineItemTag
        /\ children[k + 1] = AgreementTag
        /\ children[k + 2] = DeliveryTag
        /\ children[k + 3] = SettlementTag

RECURSIVE SumSeq(_)
\* The sum of a sequence of integers.
SumSeq(s) == IF s = <<>> THEN 0 ELSE Head(s) + SumSeq(Tail(s))

\* C1: for every invoice with at least one line item and any optional fields,
\* the transaction XMLService builds has all line items first, then exactly one
\* trade agreement, one trade delivery and one trade settlement as last child.
C1_XMLServiceSectionOrder ==
    (doc.encoder = "XMLService" /\ Len(invoice.items) >= 1)
        => /\ FixedSectionOrder(doc.transaction)
           /\ doc.transaction[1] = LineItemTag

C1_Witness ==
    /\ doc.encoder = "XMLService"
    /\ Len(invoice.items) >= 2
    /\ invoice.opts = OptFields
    /\ Len(doc.transaction) = Len(invoice.items) + 3

\* C2: the standalone encoders of src/generate_facturx_xml.py and
\* src/facturx_process.py emit the transaction in the fixed order (line items,
\* agreement, delivery, settlement) for every invoice with a line item.
C2_StandaloneSectionOrder ==
    (doc.encoder \in {"generate_facturx_xml", "facturx_process"}
     /\ Len(invoice.items) >= 1)
        => FixedSectionOrder(doc.transaction)

\* C10: in src/generate_facturx_xml.py every line item contributes to exactly
\* one tax group, the one of its rate, and the emitted BasisAmount values sum
\* to the sum of the emitted LineTotalAmount values (in cents).
C10_TaxPartition ==
    doc.encoder = "generate_facturx_xml"
        => /\ \A i \in 1..Len(doc.lines) :
                Cardinality({g \in 1..Len(doc.taxes) :
                    doc.taxes[g].rate = doc.lines[i].RateApplicablePercent}) = 1
           /\ SumSeq([g \in 1..Len(doc.taxes) |-> doc.taxes[g].BasisAmount])
                = SumSeq([i \in 1..Len(doc.lines) |-> doc.lines[i].LineTotalAmount])

-----------------------------------------------------------------------------
(* Properties of the container after a run.                                *)

\* The last run, once one has been made.
LastCall == last.log[Len(last.log)]

Attached == last.log # <<>> /\ LastCall.ok

\* The invoice XML's name, as a string or as a PDF Name.
IsCanonical(f) == f \in {CanonicalName, "/factur-x.xml"}

\* Positions of /AF holding a file specification of the invoice XML.
AFEntries(p) ==
    {i \in 1..Len(p.AF) :
        p.objs[p.AF[i]].Type = "Filespec" /\ IsCanonical(p.objs[p.AF[i]].F)}

\* Positions of the name tree registering the invoice XML.
NameEntries(p) ==
    {j \in 1..Len(p.names) :
        IsCanonical(p.names[j].key) /\ p.objs[p.names[j].ref].Type = "Filespec"}

\* The payload the run's variant computes from the run's arguments.
Payload(call) ==
    CASE call.variant = "facturx_process" -> Root_meta(call.profile)
      [] call.variant \in {"embed_xml", "embed_xml_updated"} ->
            EmbedXml_meta(call.profile)
      [] call.variant \in {"add_facturx", "server_utils"} -> Zf_meta
      [] call.variant = "server_invoice" ->
            generateXMPMetadata(call.xml, "INV-1", call.now)

\* C3: after a successful attach by any embed variant, a file specification
\* of the invoice XML is reachable from the /AF array and from the embedded
\* files name tree.
C3_BothIndices ==
    Attached => AFEntries(pdf) # {} /\ NameEntries(pdf) # {}

\* C4: after a successful attach by a variant that fills both indices, the
\* newest /AF entry and the newest name tree entry are references to one and
\* the same indirect object.
C4_SameObject ==
    (Attached /\ LastCall.variant \in
        {"facturx_process", "embed_xml_updated", "server_invoice", "server_utils"})
        => pdf.AF[Len(pdf.AF)] = pdf.names[Len(pdf.names)].ref

\* C5: after two successful attaches in a row by one variant with the same
\* XML, the /AF array and the name tree each hold exactly one entry for the
\* invoice XML.
C5_Idempotent ==
    (/\ Len(last.log) >= 2
     /\ LastCall.ok
     /\ last.log[Len(last.log) - 1].ok
     /\ last.log[Len(last.log) - 1].variant = LastCall.variant
     /\ last.log[Len(last.log) - 1].xml = LastCall.xml)
        => /\ Cardinality(AFEntries(pdf)) = 1
           /\ Cardinality(NameEntries(pdf)) = 1

\* C6: after a successful attach by any variant, /Metadata is present and
\* carries every entry of the payload that run computed, whether or not the
\* container opened already had /Metadata.
C6_MetadataOverwritten ==
    Attached
        => /\ "Metadata" \in pdf.keys
           /\ \A k \in DOMAIN Payload(LastCall) :
                pdf.metadata[k] = Payload(LastCall)[k]

\* C8: an attach leaves every entry the opened container had in /AF and in
\* the name tree at its position, with its name and its reference, and every
\* object they refer to as it was; it only adds entries after them.
C8_ExistingEntriesKept ==
    Attached
        => /\ Len(pdf.AF) >= Len(last.before.AF)
           /\ Len(pdf.names) >= Len(last.before.names)
           /\ Len(pdf.objs) >= Len(last.before.objs)
           /\ \A i \in 1..Len(last.before.AF) : pdf.AF[i] = last.before.AF[i]
           /\ \A j \in 1..Len(last.before.names) :
                pdf.names[j] = last.before.names[j]
           /\ \A n \in 1..Len(last.before.objs) :
                pdf.objs[n] = last.before.objs[n]

C8_Witness ==
    /\ Attached
    /\ Len(last.before.AF) >= 1
    /\ Len(last.before.names) >= 1
    /\ last.before.objs[last.before.AF[1]] = OtherFilespec
    /\ last.before.names[1].key = "other.xml"
    /\ Len(pdf.AF) > Len(last.before.AF)
    /\ Len(pdf.names) > Len(last.before.names)

-----------------------------------------------------------------------------
(* Properties of a pipeline run.                                           *)

\* C7: in every pipeline variant, a run that ends failed leaves the file at
\* the output path as it was before the run.
C7_NoPartialCommit ==
    pipe.pc = "failed" => pipe.target = pipe.targetBefore

\* C9: in create_facturx_invoice (src/facturx_process.py and
\* src/create_facturx_invoice.py) no embed step runs before the conversion,
\* and when the conversion fails the run has returned False with nothing run
\* but the conversion: no XML generated, no embed, no container edited, the
\* output path untouched.
C9_ConvertFirstAndAbort ==
    pipe.variant \in TempVariants
        => /\ \A i \in 1..Len(pipe.events) :
                pipe.events[i] \in {"generate", "embed", "validate"}
                    => pipe.events[1] = "convert" /\ pipe.converted = "ok"
           /\ pipe.converted = "failed"
                => /\ pipe.result = "False"
                   /\ pipe.pc = "failed"
                   /\ \A i \in 1..Len(pipe.events) : pipe.events[i] = "convert"
                   /\ pipe.target = pipe.targetBefore
                   /\ pdf = EmptyContainer

C9_Witness ==
    /\ pipe.variant = "create_facturx_invoice"
    /\ pipe.converted = "failed"
    /\ pipe.events = <<"convert", "convert">>
    /\ pipe.targetBefore = "old"
    /\ pipe.target = "old"
    /\ pipe.result = "False"

-----------------------------------------------------------------------------
(* Properties of the header, the amounts, the tax groups and the parties.  *)

\* The encoders that write a full header monetary summation.
SummingEncoders == {"generate_facturx_xml", "facturx_process"}

\* The texts of a party's children with the given element name.
TextsOf(party, tag) ==
    {party[c].text : c \in {c \in 1..Len(party) : party[c].tag = tag}}

\* C11: in every document encoded by src/generate_facturx_xml.py or
\* src/facturx_process.py, GrandTotalAmount = LineTotalAmount + TaxTotalAmount
\* and DuePayableAmount <= GrandTotalAmount (in cents).
C11_GrandTotalIsNetPlusTax ==
    (doc.encoder \in SummingEncoders /\ doc.result = "ok")
        => /\ doc.summation.GrandTotalAmount
                = doc.summation.LineTotalAmount + doc.summation.TaxTotalAmount
           /\ doc.summation.DuePayableAmount <= doc.summation.GrandTotalAmount

\* C12: in the document of src/generate_facturx_xml.py the header
\* LineTotalAmount is the sum of the line items' LineTotalAmount and the
\* header TaxTotalAmount is the sum of the tax groups' CalculatedAmount.
C12_HeaderMatchesLines ==
    (doc.encoder = "generate_facturx_xml" /\ doc.result = "ok")
        => /\ doc.summation.LineTotalAmount
                = SumSeq([i \in 1..Len(doc.lines) |-> doc.lines[i].LineTotalAmount])
           /\ doc.summation.TaxTotalAmount
                = SumSeq([g \in 1..Len(doc.taxes) |-> doc.taxes[g].CalculatedAmount])

\* C13: the tax groups of src/generate_facturx_xml.py are emitted in
\* ascending order of rate, whatever the order of the line items.
C13_TaxGroupsAscending ==
    doc.encoder = "generate_facturx_xml"
        => \A g \in 1..Len(doc.taxes), h \in 1..Len(doc.taxes) :
                g < h => doc.taxes[g].rate < doc.taxes[h].rate

\* C14: encoding an invoice without line items (src/generate_facturx_xml.py,
\* XMLService) ends in an error and writes no document.
C14_NoItemsIsAnError ==
    (doc.encoder \in {"generate_facturx_xml", "XMLService"} /\ invoice.items = <<>>)
        => doc.result = "error"

\* C15: when the invoice number, the issue date or the currency is missing
\* from the input, the encoder (XMLService, src/generate_facturx_xml.py) ends
\* in an error: no document with a substituted value is produced.
C15_NoDefaultsForRequired ==
    (/\ doc.encoder \in {"generate_facturx_xml", "XMLService"}
     /\ ~ {"invoice_number", "issue_date", "currency"} \subseteq DOMAIN invoice)
        => doc.result = "error"

\* The number of line-item elements of the transaction.
LineItemElements ==
    Cardinality({c \in 1..Len(doc.transaction) : doc.transaction[c] = LineItemTag})

\* The i-th line element carries position i; the unit price is written as
\* given (str) or in cents (":.2f"), a quarter being 25 cents.
CarriesPosition(i) ==
    IF doc.encoder = "server_invoice" THEN doc.lines[i].LineID = ToString(i)
    ELSE doc.lines[i].LineID = i

CarriesUnitPrice(i) ==
    IF doc.encoder = "generate_facturx_xml"
    THEN doc.lines[i].ChargeAmount = 25 * invoice.items[i].unit_price
    ELSE doc.lines[i].ChargeAmount = invoice.items[i].unit_price

\* C16: XMLService, src/generate_facturx_xml.py and the encoder of
\* src/server/invoice/facturx_process.py emit exactly one line-item element
\* per input item, the i-th carrying LineID i and the description, quantity
\* and unit price of the i-th item.
C16_LineOrderPreserved ==
    doc.encoder \in {"XMLService", "generate_facturx_xml", "server_invoice"}
        => /\ Len(doc.lines) = Len(invoice.items)
           /\ LineItemElements = Len(invoice.items)
           /\ \A i \in 1..Len(doc.lines) :
                /\ CarriesPosition(i)
                /\ doc.lines[i].Name = Get(invoice.items[i], "description", "")
                /\ doc.lines[i].BilledQuantity = invoice.items[i].quantity
                /\ CarriesUnitPrice(i)

\* C17: in XMLService and in src/generate_facturx_xml.py the i-th line-item
\* element carries the tax rate of the i-th input item.
C17_LineCarriesOwnRate ==
    doc.encoder \in {"XMLService", "generate_facturx_xml"}
        => \A i \in 1..Len(doc.lines) :
                doc.lines[i].RateApplicablePercent = invoice.items[i].vat_rate

\* C18: a party's SpecifiedTaxRegistration is emitted exactly when the party
\* has a tax-registration identifier in the input, seller and buyer each
\* (XMLService, src/generate_facturx_xml.py, src/facturx_process.py).
C18_TaxRegistrationIffPresent ==
    (doc.encoder \in {"XMLService", "generate_facturx_xml", "facturx_process"}
     /\ doc.result = "ok")
        => /\ TextsOf(doc.seller, "SpecifiedTaxRegistration") # {}
                <=> "vat_number" \in DOMAIN Get(invoice, "seller", EmptyDict)
           /\ TextsOf(doc.buyer, "SpecifiedTaxRegistration") # {}
                <=> "vat_number" \in DOMAIN Get(invoice, "buyer", EmptyDict)

\* C19: a party's CountryID is emitted only when the party has a country
\* code in the input (src/generate_facturx_xml.py, src/facturx_process.py).
C19_CountryOnlyWhenPresent ==
    (doc.encoder \in {"generate_facturx_xml", "facturx_process"}
     /\ doc.result = "ok")
        => /\ TextsOf(doc.seller, "CountryID") # {}
                => "country" \in DOMAIN Get(invoice, "seller", EmptyDict)
           /\ TextsOf(doc.buyer, "CountryID") # {}
                => "country" \in DOMAIN Get(invoice, "buyer", EmptyDict)

\* The metadata keys that name the conformance profile.
ConformanceKeys == {"fx:conformance", "fx:ConformanceLevel", "zf:ConformanceLevel"}

\* C20: after a successful attach, whichever way the variant was called, the
\* conformance profile in the container's metadata is one of MINIMUM,
\* BASIC_WL, EN16931.
C20_ProfileInFixedSet ==
    Attached
        => \A k \in ConformanceKeys :
                pdf.metadata[k] # "" => pdf.metadata[k] \in Profiles

-----------------------------------------------------------------------------
(* The metadata builders, called at different times.                       *)

\* src/server/invoice/facturx_validator.py, generate_xmp_metadata, lines
\* 128-181: create_date is computed from the clock (now) and the packet
\* interpolates neither it nor any argument.
generate_xmp_metadata(invoice_number, issue_date, seller_name, now) ==
    LET create_date == now
    IN  ("pdfaid:part" :> "3") @@ ("pdfaid:conformance" :> "B")
        @@ ("pdfaSchema:namespaceURI" :>
                "urn:factur-x:pdfa:CrossIndustryDocument:invoice:1p0#")
        @@ ("pdfaSchema:prefix" :> "fx")
        @@ ("DocumentType" :> "INVOICE") @@ ("Version" :> "1.0")
        @@ ("ConformanceLevel" :> "EN16931")

\* The successful runs of the log made by the variant given.
CallsOf(variant) ==
    {i \in 1..Len(last.log) : last.log[i].ok /\ last.log[i].variant = variant}

\* C21: two calls of the metadata builder with the same XML content and the
\* same invoice number return the same payload whenever they are made, and
\* no entry of a payload is a value read from the clock.
C21_MetadataDeterministic ==
    /\ \A i, j \in CallsOf("server_invoice") :
            last.log[i].xml = last.log[j].xml
                => Payload(last.log[i]) = Payload(last.log[j])
    /\ \A i \in CallsOf("server_invoice") :
            /\ \A k \in DOMAIN Payload(last.log[i]) :
                    Payload(last.log[i])[k] \notin ClockValues
            /\ \A k \in DOMAIN generate_xmp_metadata("INV-1", "2024-01-15", "", last.log[i].now) :
                    generate_xmp_metadata("INV-1", "2024-01-15", "", last.log[i].now)[k]
                        \notin ClockValues

\* The file specification a run made last: the highest-numbered object that
\* is one (every variant makes its filespec indirect after its other objects).
NewestFilespec(p) ==
    LET n == CHOOSE m \in 1..Len(p.objs) :
                 /\ p.objs[m].Type = "Filespec"
                 /\ \A k \in (m + 1)..Len(p.objs) : p.objs[k].Type # "Filespec"
    IN  p.objs[n]

\* C22: after a successful attach by any embed variant, the file
\* specification the run registered carries AFRelationship = Data, the same
\* value in every variant, never Alternative.
C22_RelationshipIsData ==
    Attached => NewestFilespec(pdf).AFRelationship = "Data"

-----------------------------------------------------------------------------
(* The services of src/src/facturxapp: calls of FacturXService and         *)
(* PDFAService running side by side on one output directory.  files maps a *)
(* path to the file's content; procs[j] is the j-th call:                  *)
(*   op            the method called,                                      *)
(*   input_pdf, invoice_data, output_pdf   its arguments,                  *)
(*   pc            the step to run next, or "returned" / "raised",         *)
(*   xml_string    what the call read back from the XML file,              *)
(*   tools         the external commands the call has run, in order,       *)
(*   wrote         the paths the call has written,                         *)
(*   result, error what it returned, or the exception it raised.           *)

Jobs == {1, 2}

\* The callers pass distinct output paths.
OutputPath(j) == IF j = 1 THEN "out1.pdf" ELSE "out2.pdf"

InputPaths == {"sample.pdf", "nonexistent.pdf"}

\* The output directory before the calls: the input PDF and nothing else.
ServiceFiles == "sample.pdf" :> [kind |-> "pdf", xml |-> "none"]

\* Invoice data: invoice_number present or not, the rest of the invoice
\* (body), and whether the tree built from it satisfies the schema.
InvoiceData ==
    LET rest == {("body" :> b) @@ ("schema_valid" :> v) :
                    b \in {"a", "b"}, v \in BOOLEAN}
    IN  rest \cup {("invoice_number" :> n) @@ r : n \in {"INV-1", "INV-2"}, r \in rest}

\* etree.ElementTree(root) as written: the tree built from the invoice data.
XmlOf(invoice_data) == [kind |-> "xml", of |-> invoice_data]

\* xml_service.py, line 47:
\* self.output_dir / f"facturx_{invoice_data.get('invoice_number', 'test')}.xml"
XmlPath(invoice_data) ==
    "facturx_" \o Get(invoice_data, "invoice_number", "test") \o ".xml"

\* The mutated check: every path is taken to exist.
Exists_unchecked(fs, path) == TRUE

\* Path.exists()
Exists(fs, path) == path \in DOMAIN fs

\* open(path, "w") ... write
WriteFile(fs, path, content) == (path :> content) @@ fs

Call(op, input_pdf, invoice_data, j) ==
    [op |-> op, input_pdf |-> input_pdf, invoice_data |-> invoice_data,
     output_pdf |-> OutputPath(j), pc |-> "start", xml_string |-> "none",
     tools |-> <<>>, wrote |-> {}, result |-> "none", error |-> "none"]

Calls(j) ==
    {Call("embed_facturx", i, d, j) : i \in InputPaths, d \in InvoiceData}
    \cup {Call("generate_facturx_xml", "none", d, j) : d \in InvoiceData}
    \cup {Call(op, i, EmptyDict, j) :
            op \in {"convert_to_pdfa3b", "validate_pdfa3b"}, i \in InputPaths}

Raise(call, error) == [call EXCEPT !.pc = "raised", !.error = error]

Return(call, result) == [call EXCEPT !.pc = "returned", !.result = result]

ServiceInit ==
    /\ files = ServiceFiles
    /\ procs \in {<<c1, c2>> : c1 \in Calls(1), c2 \in Calls(2)}
    /\ invoice = [items |-> <<>>, opts |-> {}]
    /\ doc = NoDoc
    /\ pdf = IdlePdf
    /\ last = IdleLast
    /\ pipe = IdlePipe

\* The first statement of embed_facturx (facturx_service.py, 42-43), of
\* convert_to_pdfa3b (pdfa_service.py, 51-52) and of validate_pdfa3b
\* (pdfa_service.py, 101-102).
CheckInput(j) ==
    /\ procs[j].pc = "start"
    /\ procs[j].op \in {"embed_facturx", "convert_to_pdfa3b", "validate_pdfa3b"}
    /\ procs' = [procs EXCEPT ![j] =
            IF Exists(files, @.input_pdf)
            THEN [@ EXCEPT !.pc =
                    CASE procs[j].op = "embed_facturx" -> "generate"
                      [] procs[j].op = "convert_to_pdfa3b" -> "convert"
                      [] procs[j].op = "validate_pdfa3b" -> "validate"]
            ELSE Raise(@, "FileNotFoundError")]
    /\ UNCHANGED <<invoice, doc, pdf, last, pipe, files>>

\* XMLService.generate_facturx_xml (xml_service.py, 46-82), called by
\* embed_facturx (facturx_service.py, 52) or on its own: the tree is written
\* to xml_path, then validate_invoice_xml(root) runs and its result is
\* dropped.  validate_invoice_xml raises where the schema file cannot be
\* parsed (xml_schema_validator.py, 19-20, outside its try).
GenerateXml(j) ==
    /\ \/ procs[j].op = "embed_facturx" /\ procs[j].pc = "generate"
       \/ procs[j].op = "generate_facturx_xml" /\ procs[j].pc = "start"
    /\ LET xml_path == XmlPath(procs[j].invoice_data)
       IN  /\ files' = WriteFile(files, xml_path, XmlOf(procs[j].invoice_data))
           /\ \E schema_loaded \in BOOLEAN :
                procs' = [procs EXCEPT ![j] =
                    LET written == [@ EXCEPT !.wrote = @ \cup {xml_path}]
                    IN  IF ~schema_loaded THEN Raise(written, "OSError")
                        ELSE IF written.op = "embed_facturx"
                             THEN [written EXCEPT !.pc = "read"]
                             ELSE Return(written, xml_path)]
    /\ UNCHANGED <<invoice, doc, pdf, last, pipe>>

\* facturx_service.py, 55-58: the XML file is read back by its path.
ReadXml(j) ==
    /\ procs[j].pc = "read"
    /\ procs' = [procs EXCEPT ![j] =
            [@ EXCEPT !.xml_string = files[XmlPath(procs[j].invoice_data)],
                      !.pc = "embed"]]
    /\ UNCHANGED <<invoice, doc, pdf, last, pipe, files>>

\* facturx_service.py, 61-79: the input is read, generate_facturx_from_binary
\* builds the output (or raises) and the output is written.
EmbedWrite(j) ==
    /\ procs[j].pc = "embed"
    /\ \E built \in BOOLEAN :
        IF ~(procs[j].input_pdf \in DOMAIN files)
        THEN /\ procs' = [procs EXCEPT ![j] = Raise(@, "FileNotFoundError")]
             /\ UNCHANGED files
        ELSE IF ~built
        THEN /\ procs' = [procs EXCEPT ![j] = Raise(@, "Exception")]
             /\ UNCHANGED files
        ELSE /\ files' = WriteFile(files, procs[j].output_pdf,
                            [kind |-> "pdf", xml |-> procs[j].xml_string])
             /\ procs' = [procs EXCEPT ![j] =
                    [@ EXCEPT !.wrote = @ \cup {procs[j].output_pdf},
                              !.pc = "validate_output"]]
    /\ UNCHANGED <<invoice, doc, pdf, last, pipe>>

\* facturx_service.py, 82-86: validate_pdfa3b(output_pdf) runs Ghostscript;
\* a negative answer is logged and output_pdf is returned either way.
ValidateOutput(j) ==
    /\ procs[j].pc = "validate_output"
    /\ procs' = [procs EXCEPT ![j] =
            Return([@ EXCEPT !.tools = Append(@, "gs")], @.output_pdf)]
    /\ UNCHANGED <<invoice, doc, pdf, last, pipe, files>>

\* pdfa_service.py, 54-89: Ghostscript converts; where it succeeds the output
\* exists and validate_pdfa3b runs Ghostscript on it, where it fails
\* (output_pdf, False) is returned.
ConvertGs(j) ==
    /\ procs[j].pc = "convert"
    /\ \E converted \in BOOLEAN, is_valid \in BOOLEAN :
        IF converted
        THEN /\ files' = WriteFile(files, procs[j].output_pdf,
                            [kind |-> "pdf", xml |-> "none"])
             /\ procs' = [procs EXCEPT ![j] =
                    Return([@ EXCEPT !.tools = @ \o <<"gs", "gs">>,
                                     !.wrote = @ \cup {procs[j].output_pdf}],
                           <<@.output_pdf, is_valid>>)]
        ELSE /\ UNCHANGED files
             /\ procs' = [procs EXCEPT ![j] =
                    Return([@ EXCEPT !.tools = Append(@, "gs")],
                           <<@.output_pdf, FALSE>>)]
    /\ UNCHANGED <<invoice, doc, pdf, last, pipe>>

\* pdfa_service.py, 104-133: Ghostscript validates, True or False is returned.
ValidateGs(j) ==
    /\ procs[j].pc = "validate"
    /\ \E is_valid \in BOOLEAN :
        procs' = [procs EXCEPT ![j] =
            Return([@ EXCEPT !.tools = Append(@, "gs")], is_valid)]
    /\ UNCHANGED <<invoice, doc, pdf, last, pipe, files>>

ServiceNext ==
    \E j \in Jobs :
        \/ CheckInput(j)
        \/ GenerateXml(j)
        \/ ReadXml(j)
        \/ EmbedWrite(j)
        \/ ValidateOutput(j)
        \/ ConvertGs(j)
        \/ ValidateGs(j)

SpecService == ServiceInit /\ [][ServiceNext]_vars

\* C23: of two embed_facturx calls running on the same output directory with
\* distinct output paths, each one that has returned left at its output path
\* a PDF embedding the XML generated from its own invoice data, whatever the
\* other call did in between.
C23_JobsDoNotInterfere ==
    (\A k \in Jobs : procs[k].op = "embed_facturx")
        => \A j \in Jobs :
                procs[j].pc = "returned"
                    => files[procs[j].output_pdf].xml = XmlOf(procs[j].invoice_data)

-----------------------------------------------------------------------------
(* Properties of the pipelines' converter and validation steps.            *)

\* The invocations of the converter in the run so far.
ConverterRuns == {i \in 1..Len(pipe.events) : pipe.events[i] = "convert"}

\* C24: within one pipeline run the external converter is invoked at most
\* once; no second conversion attempt is made inside the converter step.
C24_ConverterRunsOnce == Cardinality(ConverterRuns) <= 1

\* C27: a run of create_facturx_invoice (src/create_facturx_invoice.py or
\* src/facturx_process.py) with validation enabled returns True only if the
\* validation step reported the output PDF valid.
C27_SuccessOnlyIfValid ==
    (pipe.variant \in TempVariants /\ pipe.validate /\ pipe.result = "True")
        => pipe.validation = "valid"

-----------------------------------------------------------------------------
(* Properties of the services.                                             *)

\* The calls that take an input file and were given one that does not exist.
MissingInput(j) ==
    /\ procs[j].op \in {"embed_facturx", "convert_to_pdfa3b", "validate_pdfa3b"}
    /\ procs[j].input_pdf \notin DOMAIN files

\* C25: a call of embed_facturx, convert_to_pdfa3b or validate_pdfa3b whose
\* input path does not exist ends, as soon as it has taken a step, raising
\* FileNotFoundError, having run no external tool and written no file.
C25_MissingInputRejectedFirst ==
    \A j \in Jobs :
        (MissingInput(j) /\ procs[j].pc # "start")
            => /\ procs[j].pc = "raised"
               /\ procs[j].error = "FileNotFoundError"
               /\ procs[j].tools = <<>>
               /\ procs[j].wrote = {}
               /\ procs[j].output_pdf \notin DOMAIN files

C25_Witness ==
    /\ MissingInput(1) /\ MissingInput(2)
    /\ procs[1].op = "embed_facturx" /\ procs[1].pc = "raised"
    /\ procs[2].op \in {"convert_to_pdfa3b", "validate_pdfa3b"}
    /\ procs[2].pc = "raised"

\* The calls that ran generate_facturx_xml to its end: it returned its path
\* to the caller, or embed_facturx went on with the file.
GeneratedNormally(j) ==
    \/ procs[j].op = "generate_facturx_xml" /\ procs[j].pc = "returned"
    \/ procs[j].op = "embed_facturx"
       /\ procs[j].pc \in {"read", "embed", "validate_output", "returned"}

\* C28: generate_facturx_xml returns normally, leaves an XML file written,
\* and embed_facturx goes on to embed it, only for invoice data whose tree
\* passed the schema validation.
C28_OnlyValidXmlReturned ==
    \A j \in Jobs :
        /\ GeneratedNormally(j) => procs[j].invoice_data.schema_valid
        /\ XmlPath(procs[j].invoice_data) \in procs[j].wrote
                => procs[j].invoice_data.schema_valid

-----------------------------------------------------------------------------
(* One run of an embed variant, statement by statement.  procs is the run: *)
(*   variant, xml, profile, now   the variant and its inputs,              *)
(*   steps         the steps executed so far, each with its outcome,       *)
(*   state         Unopened, Opened, ResourceAttached, MetadataAttached,   *)
(*                 Persisted, or Failed once a step has raised.            *)
(* pdf is the Pdf object in memory and files the PDF files on disk.        *)

EmbedVariants ==
    {"facturx_process", "embed_xml", "embed_xml_updated", "add_facturx",
     "server_invoice", "server_utils"}

\* The mutated order: the file is saved before the metadata is set.
Program_save_early(variant) == <<"open", "attach", "save", "metadata">>

\* The statements of each variant's try block, in the order of the code:
\* Pdf.open, the filespec and its registration, the metadata, pdf.save; the
\* server/invoice variant re-opens the saved file and checks DefaultGray.
Program(variant) ==
    IF variant = "server_invoice"
    THEN <<"open", "attach", "metadata", "save", "check">>
    ELSE <<"open", "attach", "metadata", "save">>

\* The server variants save to the path they opened, the others to output_path.
SavePath(variant) == IF variant \in InPlaceVariants THEN "in.pdf" ELSE "out.pdf"

\* What the variant makes of the container it opened, attachment and metadata.
EmbedBy(variant, p, xml, profile, now) ==
    CASE variant = "facturx_process" -> Root_embed_xml_in_pdf(p, xml, profile)
      [] variant = "embed_xml" -> EmbedXml_embed_xml_in_pdf(p, xml, profile)
      [] variant = "embed_xml_updated" -> Updated_embed_xml_in_pdf(p, xml, profile)
      [] variant = "add_facturx" -> add_facturx_compliance(p, xml)
      [] variant = "server_invoice" -> Invoice_embed_xml_in_pdf(p, xml, "INV-1", now)
      [] variant = "server_utils" -> Utils_embed_xml_in_pdf(p, xml)

\* The container once the filespec is registered, /Metadata still as opened.
AfterAttach(run, opened) ==
    LET full == EmbedBy(run.variant, opened, run.xml, run.profile, run.now)
    IN  [full EXCEPT !.metadata = opened.metadata,
                     !.keys = (@ \ {"Metadata"}) \cup (opened.keys \cap {"Metadata"})]

\* The container once the metadata statement has run (opened: the file as
\* it is on disk, which no statement before the save changes).
AfterMetadata(run, opened) ==
    EmbedBy(run.variant, opened, run.xml, run.profile, run.now)

\* The state a step leaves the run in: except Exception after a raise, the
\* next state of the attach state machine otherwise.
StateAfter(step, ok, state) ==
    IF ~ok THEN "Failed"
    ELSE CASE step = "open" -> "Opened"
           [] step = "attach" -> "ResourceAttached"
           [] step = "metadata" -> "MetadataAttached"
           [] step = "save" -> "Persisted"
           [] step = "check" -> state

\* The next statement of the run, "none" after the last one or after a raise
\* (the except clause returns False or re-raises).
NextStep(run) ==
    IF run.state = "Failed" \/ Len(run.steps) >= Len(Program(run.variant))
    THEN "none"
    ELSE Program(run.variant)[Len(run.steps) + 1]

Ran(run, step, ok) ==
    [run EXCEPT !.steps = Append(@, [name |-> step, ok |-> ok]),
                !.state = StateAfter(step, ok, run.state)]

StepsInit ==
    /\ \E variant \in EmbedVariants, xml \in XmlContents,
          profile \in ProfileArgs, now \in ClockValues :
          procs = [variant |-> variant, xml |-> xml, profile |-> profile,
                   now |-> now, steps |-> <<>>, state |-> "Unopened"]
    /\ \E c \in InputContainers : files = ("in.pdf" :> c)
    /\ pdf = EmptyContainer
    /\ last = IdleLast
    /\ pipe = IdlePipe
    /\ invoice = [items |-> <<>>, opts |-> {}]
    /\ doc = NoDoc

\* Pdf.open(pdf_path)
StepOpen ==
    /\ NextStep(procs) = "open"
    /\ \E ok \in BOOLEAN :
        /\ procs' = Ran(procs, "open", ok)
        /\ pdf' = IF ok THEN files["in.pdf"] ELSE pdf
    /\ UNCHANGED <<invoice, doc, last, pipe, files>>

\* The filespec is built and appended to /AF and to the name tree.
StepAttach ==
    /\ NextStep(procs) = "attach"
    /\ \E ok \in BOOLEAN :
        /\ procs' = Ran(procs, "attach", ok)
        /\ pdf' = IF ok THEN AfterAttach(procs, pdf) ELSE pdf
    /\ UNCHANGED <<invoice, doc, last, pipe, files>>

\* with pdf.open_metadata() ... / pdf.Root.Metadata = xmp
StepMetadata ==
    /\ NextStep(procs) = "metadata"
    /\ \E ok \in BOOLEAN :
        /\ procs' = Ran(procs, "metadata", ok)
        /\ pdf' = IF ok THEN AfterMetadata(procs, files["in.pdf"]) ELSE pdf
    /\ UNCHANGED <<invoice, doc, last, pipe, files>>

\* pdf.save(path)
StepSave ==
    /\ NextStep(procs) = "save"
    /\ \E ok \in BOOLEAN :
        /\ procs' = Ran(procs, "save", ok)
        /\ files' = IF ok THEN WriteFile(files, SavePath(procs.variant), pdf)
                    ELSE files
    /\ UNCHANGED <<invoice, doc, pdf, last, pipe>>

\* server/invoice only: the DefaultGray check of the saved file.
StepCheck ==
    /\ NextStep(procs) = "check"
    /\ \E ok \in BOOLEAN : procs' = Ran(procs, "check", ok)
    /\ UNCHANGED <<invoice, doc, pdf, last, pipe, files>>

StepsNext == StepOpen \/ StepAttach \/ StepMetadata \/ StepSave \/ StepCheck

SpecSteps == StepsInit /\ [][StepsNext]_vars

\* The position of the step in the run, 0 if it has not run.
StepIndex(name) ==
    IF \E i \in 1..Len(procs.steps) : procs.steps[i].name = name
    THEN CHOOSE i \in 1..Len(procs.steps) : procs.steps[i].name = name
    ELSE 0

Saved ==
    /\ StepIndex("save") > 0
    /\ procs.steps[StepIndex("save")].ok

-----------------------------------------------------------------------------
(* The profile identifier: what the generators write against what          *)
(* FacturXValidator accepts (src/server/invoice/facturx_validator.py).     *)

\* validate_profile_id, lines 56-59
accepted_prefixes ==
    {<<"urn", "factur-x.eu", "1p0", "en16931">>, <<"urn", "cen.eu", "en16931", "2017">>}

\* str.startswith on the pieces: the text begins with every piece of the
\* prefix, compared case-sensitively.  (For the identifiers written above no
\* piece properly extends the last piece of a prefix, so the test on pieces
\* and the test on characters agree.)
startswith(text, prefix) ==
    /\ Len(prefix) <= Len(text)
    /\ \A i \in 1..Len(prefix) : text[i] = prefix[i]

\* validate_profile_id, lines 48-63: False without the element, else the
\* prefix test on the first ID's text (strip() removes no character of an
\* identifier written without surrounding white space).
validate_profile_id(guideline) ==
    /\ guideline # <<>>
    /\ \E prefix \in accepted_prefixes : startswith(guideline, prefix)

\* C29: the guideline ID every XML generator writes for the EN16931 profile
\* is accepted by FacturXValidator.validate_profile_id.
C29_GuidelineAccepted ==
    doc.result = "ok"
        => /\ validate_profile_id(doc.guideline)
           /\ validate_profile_id(Utils_guideline)

-----------------------------------------------------------------------------
(* The action log (src/server/invoice/facturx_validator.py): try_call runs *)
(* in parallel processes that share cursor_registry.json.  files holds the *)
(* registry file, procs[j] the j-th call of try_call:                      *)
(*   pc        run, read, open, dump, then done, or raised,                *)
(*   success   how the command ended,                                      *)
(*   registry  the list cursor_log_action holds in memory.                 *)
(* last.before is the registry file as it was before the calls.            *)

MaxCalls == 2

Callers == 1..MaxCalls

REGISTRY_FILE == "cursor_registry.json"

\* A registry file holding the entries given, fully written.
RegistryFileOf(entries) == [written |-> "complete", entries |-> entries]

\* The file between open(REGISTRY_FILE, "w") and the end of json.dump: empty.
TruncatedFile == [written |-> "truncated", entries |-> <<>>]

\* {"action": action, "success": success, "note": note}
Entry(action, success) == [action |-> action, success |-> success]

\* The registry files the calls may find: none, or one with an earlier entry.
RegistryFiles == {NoFiles, REGISTRY_FILE :> RegistryFileOf(<<Entry(0, TRUE)>>)}

RegistryInit ==
    /\ files \in RegistryFiles
    /\ procs = [j \in Callers |-> [pc |-> "run", success |-> TRUE, registry |-> <<>>]]
    /\ last = [log |-> <<>>, before |-> files]
    /\ pdf = IdlePdf
    /\ pipe = IdlePipe
    /\ invoice = [items |-> <<>>, opts |-> {}]
    /\ doc = NoDoc

\* try_call, lines 24-31: the command runs and ends well or not; either way
\* cursor_log_action is called next.
RunCommand(j) ==
    /\ procs[j].pc = "run"
    /\ \E success \in BOOLEAN :
        procs' = [procs EXCEPT ![j].success = success, ![j].pc = "read"]
    /\ UNCHANGED <<invoice, doc, pdf, last, pipe, files>>

\* cursor_log_action, lines 13-17: the file, if there is one, is loaded (an
\* empty file makes json.load raise) and the entry is appended in memory.
ReadRegistry(j) ==
    /\ procs[j].pc = "read"
    /\ procs' = [procs EXCEPT ![j] =
            IF REGISTRY_FILE \notin DOMAIN files
            THEN [@ EXCEPT !.registry = <<Entry(j, procs[j].success)>>, !.pc = "open"]
            ELSE IF files[REGISTRY_FILE].written = "truncated"
            THEN [@ EXCEPT !.pc = "raised"]
            ELSE [@ EXCEPT !.registry = Append(files[REGISTRY_FILE].entries,
                                               Entry(j, procs[j].success)),
                           !.pc = "open"]]
    /\ UNCHANGED <<invoice, doc, pdf, last, pipe, files>>

\* Line 18: open(REGISTRY_FILE, "w") creates or truncates the file.
OpenRegistry(j) ==
    /\ procs[j].pc = "open"
    /\ files' = WriteFile(files, REGISTRY_FILE, TruncatedFile)
    /\ procs' = [procs EXCEPT ![j].pc = "dump"]
    /\ UNCHANGED <<invoice, doc, pdf, last, pipe>>

\* Line 19: json.dump writes the list held in memory.
DumpRegistry(j) ==
    /\ procs[j].pc = "dump"
    /\ files' = WriteFile(files, REGISTRY_FILE, RegistryFileOf(procs[j].registry))
    /\ procs' = [procs EXCEPT ![j].pc = "done"]
    /\ UNCHANGED <<invoice, doc, pdf, last, pipe>>

RegistryNext ==
    \E j \in Callers :
        \/ RunCommand(j)
        \/ ReadRegistry(j)
        \/ OpenRegistry(j)
        \/ DumpRegistry(j)

SpecRegistry == RegistryInit /\ [][RegistryNext]_vars

\* The entries the registry file held before the calls.
EntriesBefore ==
    IF REGISTRY_FILE \in DOMAIN last.before
    THEN last.before[REGISTRY_FILE].entries ELSE <<>>

\* C30: once all n concurrent calls have completed, the registry file holds
\* the entries it held before, followed by exactly n new ones, one per call.
C30_NoLostEntries ==
    (\A j \in Callers : procs[j].pc \in {"done", "raised"})
        => /\ REGISTRY_FILE \in DOMAIN files
           /\ LET entries == files[REGISTRY_FILE].entries
              IN  /\ files[REGISTRY_FILE].written = "complete"
                  /\ Len(entries) = Len(EntriesBefore) + MaxCalls
                  /\ SubSeq(entries, 1, Len(EntriesBefore)) = EntriesBefore
                  /\ \A j \in Callers :
                        \E i \in 1..Len(entries) : entries[i].action = j

=============================================================================
